---- MODULE Spec2Model ----
(***************************************************************************)
(* Prot'n'Hub (protnhub.py): the interaction-graph pipeline                *)
(*   build_network -> find_hub_genes -> create_graph_figure                *)
(* and the Analyze button handler that drives it.                          *)
(*                                                                         *)
(* Python values are modelled as follows.                                  *)
(*   - an interaction record (a JSON object) is a TLA+ record whose DOMAIN *)
(*     is the set of keys it has; a malformed record lacks a key;          *)
(*   - scores are integers in tenths (3 stands for 0.3);                   *)
(*   - a networkx DiGraph is [nodes, edges]: nodes is the sequence of node *)
(*     labels in insertion order (the iteration order of G.nodes() and of  *)
(*     G.degree()), edges the sequence of [src, dst, weight] held by the   *)
(*     graph, one entry per directed edge;                                 *)
(*   - the layout positions (spring_layout) and the line coordinates of    *)
(*     the edge trace are floating point presentation data and are left    *)
(*     out; the node trace is kept.                                        *)
(***************************************************************************)
EXTENDS Integers, Sequences, FiniteSets

VARIABLES
    pc,            \* position of the running script / last function applied
    uniprot_id,    \* user_input.strip() of the current request
    string_data,   \* value returned by get_string_interactions (or the records given)
    G,             \* the graph returned by build_network
    top_n,         \* the top_n find_hub_genes was called with
    hub_genes,     \* the list returned by find_hub_genes
    hubs_arg,      \* the hub list create_graph_figure was called with
    fig,           \* node trace of the figure: one entry per emitted node
    results,       \* Network Analysis Results block: [listing, main_hub]
    raised,        \* exception that ended the call ("none" when it returned)
    shown,         \* st.warning / st.error / st.success / st.info messages, in order
    calls          \* functions invoked so far in the current request, in order

vars == <<pc, uniprot_id, string_data, G, top_n, hub_genes, hubs_arg, fig,
          results, raised, shown, calls>>

----------------------------------------------------------------------------
(* Bounds of the model *)

MaxIngest == 3
MaxRank == 3
MaxReply == 3
MaxTopN == 3
MaxHubs == 2

(* Program constants *)

DefaultTopN == 5
ListingLimit == 10
BaseNodeSize == 15
SizePerDegree == 2
StatusOK == 200

----------------------------------------------------------------------------
(* Generic helpers *)

SeqsUpTo(S, n) == UNION {[1..k -> S] : k \in 0..n}

Min(a, b) == IF a < b THEN a ELSE b

Max(a, b) == IF a > b THEN a ELSE b

Contains(s, x) == \E i \in 1..Len(s) : s[i] = x

(* Python str.strip() on a string given as a sequence of characters. *)
RECURSIVE LStrip(_)
LStrip(s) == IF s # <<>> /\ Head(s) = " " THEN LStrip(Tail(s)) ELSE s

RECURSIVE RStrip(_)
RStrip(s) ==
    IF s # <<>> /\ s[Len(s)] = " " THEN RStrip(SubSeq(s, 1, Len(s) - 1)) ELSE s

Strip(s) == RStrip(LStrip(s))

(* Python s[:n] *)
SliceTo(s, n) ==
    IF n >= 0 THEN SubSeq(s, 1, Min(n, Len(s)))
    ELSE SubSeq(s, 1, Max(Len(s) + n, 0))

----------------------------------------------------------------------------
(* Python values *)

NoneValue == [none |-> TRUE, items |-> <<>>]

ListValue(items) == [none |-> FALSE, items |-> items]

(* "not x" for x None or a list *)
Falsy(x) == x.none \/ x.items = <<>>

Rec(a, b, w) == [preferredName_A |-> a, preferredName_B |-> b, score |-> w]

WellFormed(r) == {"preferredName_A", "preferredName_B", "score"} \subseteq DOMAIN r

----------------------------------------------------------------------------
(* networkx.DiGraph *)

EmptyGraph == [nodes |-> <<>>, edges |-> <<>>]

add_node(g, n) ==
    IF Contains(g.nodes, n) THEN g ELSE [g EXCEPT !.nodes = Append(@, n)]

HasEdge(g, u, v) == \E i \in 1..Len(g.edges) : g.edges[i].src = u /\ g.edges[i].dst = v

(* add_edge as a multigraph would do it: every call appends an edge *)
add_edge_parallel(g, u, v, w) ==
    LET g2 == add_node(add_node(g, u), v)
    IN  [g2 EXCEPT !.edges = Append(@, [src |-> u, dst |-> v, weight |-> w])]

(* add_edge that registers both endpoints and then drops a non-positive edge *)
add_edge_nodes_first(g, u, v, w) ==
    LET g2 == add_node(add_node(g, u), v)
    IN  IF w <= 0 THEN g2
        ELSE [g2 EXCEPT !.edges = Append(@, [src |-> u, dst |-> v, weight |-> w])]

add_edge(g, u, v, w) ==
    LET g2 == add_node(add_node(g, u), v)
        es == g2.edges
    IN  IF HasEdge(g2, u, v)
        THEN [g2 EXCEPT !.edges =
                 [i \in 1..Len(es) |->
                     IF es[i].src = u /\ es[i].dst = v
                     THEN [src |-> u, dst |-> v, weight |-> w] ELSE es[i]]]
        ELSE [g2 EXCEPT !.edges = Append(es, [src |-> u, dst |-> v, weight |-> w])]

number_of_nodes(g) == Len(g.nodes)

(* DiGraph.degree: in-degree plus out-degree, a self-loop counts twice *)
Degree(g, n) ==
    Cardinality({i \in 1..Len(g.edges) : g.edges[i].src = n})
    + Cardinality({i \in 1..Len(g.edges) : g.edges[i].dst = n})

(* dict(G.degree()).items(): (node, degree) in node insertion order *)
degree_items(g) ==
    [i \in 1..Len(g.nodes) |-> [node |-> g.nodes[i], degree |-> Degree(g, g.nodes[i])]]

----------------------------------------------------------------------------
(* build_network *)

RECURSIVE BuildFrom(_, _, _)
BuildFrom(data, i, g) ==
    IF i > Len(data) THEN [raised |-> "none", G |-> g]
    ELSE IF ~WellFormed(data[i]) THEN [raised |-> "KeyError", G |-> g]
    ELSE BuildFrom(data, i + 1,
                   add_edge(g, data[i].preferredName_A, data[i].preferredName_B,
                            data[i].score))

build_network(data) == BuildFrom(data, 1, EmptyGraph)

----------------------------------------------------------------------------
(* sorted(items, key=degree, reverse=True): stable, descending *)

RECURSIVE InsertDesc(_, _)
InsertDesc(x, s) ==
    IF s = <<>> THEN <<x>>
    ELSE IF Head(s).degree >= x.degree THEN <<Head(s)>> \o InsertDesc(x, Tail(s))
    ELSE <<x>> \o s

RECURSIVE SortFrom(_, _, _)
SortFrom(items, i, acc) ==
    IF i > Len(items) THEN acc ELSE SortFrom(items, i + 1, InsertDesc(items[i], acc))

(* sorted(items, key=degree)[::-1]: descending, ties in reverse order *)
RECURSIVE InsertDescLast(_, _)
InsertDescLast(x, s) ==
    IF s = <<>> THEN <<x>>
    ELSE IF Head(s).degree > x.degree THEN <<Head(s)>> \o InsertDescLast(x, Tail(s))
    ELSE <<x>> \o s

RECURSIVE SortFromLast(_, _, _)
SortFromLast(items, i, acc) ==
    IF i > Len(items) THEN acc
    ELSE SortFromLast(items, i + 1, InsertDescLast(items[i], acc))

sorted_ties_reversed(items) == SortFromLast(items, 1, <<>>)

sorted_by_degree(items) == SortFrom(items, 1, <<>>)

(* find_hub_genes slicing one element too many *)
find_hub_genes_one_more(g, n) ==
    LET sorted_genes == SliceTo(sorted_by_degree(degree_items(g)), n + 1)
    IN  [i \in 1..Len(sorted_genes) |-> sorted_genes[i].node]

(* find_hub_genes *)
find_hub_genes(g, n) ==
    LET sorted_genes == SliceTo(sorted_by_degree(degree_items(g)), n)
    IN  [i \in 1..Len(sorted_genes) |-> sorted_genes[i].node]

----------------------------------------------------------------------------
(* create_graph_figure: the node trace *)

(* create_graph_figure marking only the first hub *)
create_graph_figure_first_hub(g, hubs) ==
    [i \in 1..Len(g.nodes) |->
        LET node == g.nodes[i]
            degree == Degree(g, node)
        IN  [text   |-> node,
             size   |-> BaseNodeSize + degree * SizePerDegree,
             color  |-> IF hubs # <<>> /\ hubs[1] = node THEN "red" ELSE "royalblue",
             degree |-> degree]]

create_graph_figure(g, hubs) ==
    [i \in 1..Len(g.nodes) |->
        LET node == g.nodes[i]
            degree == Degree(g, node)
        IN  [text   |-> node,
             size   |-> BaseNodeSize + degree * SizePerDegree,
             color  |-> IF Contains(hubs, node) THEN "red" ELSE "royalblue",
             degree |-> degree]]

----------------------------------------------------------------------------
(* Network Analysis Results block *)

node_degrees_listing(g) == SliceTo(sorted_by_degree(degree_items(g)), ListingLimit)

(* max(degree_dict, key=degree_dict.get): the first key of maximal value *)
RECURSIVE MaxFrom(_, _, _)
MaxFrom(items, i, best) ==
    IF i > Len(items) THEN best
    ELSE MaxFrom(items, i + 1, IF items[i].degree > best.degree THEN items[i] ELSE best)

(* max that keeps the last key of maximal value *)
RECURSIVE MaxFromLast(_, _, _)
MaxFromLast(items, i, best) ==
    IF i > Len(items) THEN best
    ELSE MaxFromLast(items, i + 1,
                     IF items[i].degree >= best.degree THEN items[i] ELSE best)

main_hub_last(g) ==
    LET items == degree_items(g) IN MaxFromLast(items, 2, items[1]).node

main_hub_of(g) ==
    LET items == degree_items(g) IN MaxFrom(items, 2, items[1]).node

NoResults == [listing |-> <<>>, main_hub |-> "", more |-> FALSE]

analysis_results(g) ==
    [listing  |-> node_degrees_listing(g),
     main_hub |-> IF number_of_nodes(g) > 0 THEN main_hub_of(g) ELSE "",
     more     |-> number_of_nodes(g) > ListingLimit]

----------------------------------------------------------------------------
(* get_string_interactions: the reply of the STRING service decides the value *)

get_string_interactions(status, body) ==
    IF status = StatusOK THEN ListValue(body) ELSE NoneValue

----------------------------------------------------------------------------
(* Inputs *)

Labels == {"A", "B", "C"}

Weights == {0, 3, 8}

MalformedRecords ==
    { [preferredName_B |-> "B", score |-> 3],
      [preferredName_A |-> "A", score |-> 3],
      [preferredName_A |-> "A", preferredName_B |-> "B"] }

IngestRecords == {Rec(a, b, w) : a \in Labels, b \in Labels, w \in Weights}
                 \cup MalformedRecords

RankRecords == {Rec(a, b, 9) : a \in Labels, b \in Labels}

TopNs == (0 - MaxTopN)..MaxTopN

HubLists == SeqsUpTo(Labels \cup {"Z"}, MaxHubs)

Proteins == <<"TP53", "MDM2", "ATM", "CHEK2", "EP300", "BRCA1">>

ReplyRecords ==
    {Rec(Proteins[p[1]], Proteins[p[2]], 9) :
        p \in {q \in (1..Len(Proteins)) \X (1..Len(Proteins)) : q[1] < q[2]}}

Replies == SeqsUpTo(ReplyRecords \cup {[preferredName_A |-> "TP53", score |-> 9]}, MaxReply)

(* status codes the service may answer with *)
Statuses == {StatusOK, 404, 500}

UserInputs == { <<>>, <<" ", " ">>, <<"T", "P">>, <<" ", "T", "P", " ">> }

----------------------------------------------------------------------------
(* The Analyze button handler, one action per call it makes *)

Fresh ==
    /\ uniprot_id = <<>>
    /\ string_data = NoneValue
    /\ G = EmptyGraph
    /\ top_n = DefaultTopN
    /\ hub_genes = <<>>
    /\ hubs_arg = <<>>
    /\ fig = <<>>
    /\ results = NoResults
    /\ raised = "none"
    /\ shown = <<>>
    /\ calls = <<>>

Init == pc = "idle" /\ Fresh

(* the button is pressed: strip the input, stop on an empty identifier *)
Analyze ==
    /\ pc = "idle"
    /\ \E user_input \in UserInputs :
          /\ uniprot_id' = Strip(user_input)
          /\ IF Strip(user_input) = <<>>
             THEN /\ shown' = Append(shown, "warning: enter a protein")
                  /\ pc' = "stopped"
             ELSE /\ shown' = shown
                  /\ pc' = "fetch"
    /\ UNCHANGED <<string_data, G, top_n, hub_genes, hubs_arg, fig, results, raised, calls>>

(* requests.post raises (timeout, connection error): the script run ends *)
FetchRaises ==
    /\ pc = "fetch"
    /\ calls' = Append(calls, "get_string_interactions")
    /\ raised' = "RequestException"
    /\ pc' = "stopped"
    /\ UNCHANGED <<uniprot_id, string_data, G, top_n, hub_genes, hubs_arg, fig, results, shown>>

(* the handler without the "if not string_data" stop *)
FetchReturnsUnchecked ==
    /\ pc = "fetch"
    /\ calls' = Append(calls, "get_string_interactions")
    /\ \E status \in Statuses :
       \E body \in (IF status = StatusOK THEN Replies ELSE {<<>>}) :
          string_data' = get_string_interactions(status, body)
    /\ pc' = "build"
    /\ UNCHANGED <<uniprot_id, G, top_n, hub_genes, hubs_arg, fig, results, raised, shown>>

(* get_string_interactions returns; stop when the value is None or empty *)
FetchReturns ==
    /\ pc = "fetch"
    /\ calls' = Append(calls, "get_string_interactions")
    /\ \E status \in Statuses :
       \E body \in (IF status = StatusOK THEN Replies ELSE {<<>>}) :
          /\ string_data' = get_string_interactions(status, body)
          /\ IF Falsy(get_string_interactions(status, body))
             THEN /\ shown' = Append(shown, "error: no interaction data")
                  /\ pc' = "stopped"
             ELSE /\ shown' = shown
                  /\ pc' = "build"
    /\ UNCHANGED <<uniprot_id, G, top_n, hub_genes, hubs_arg, fig, results, raised>>

(* G = build_network(string_data); stop when the graph has no node *)
Build ==
    /\ pc = "build"
    /\ calls' = Append(calls, "build_network")
    /\ LET r == build_network(string_data.items)
       IN  IF r.raised # "none"
           THEN /\ raised' = r.raised
                /\ pc' = "stopped"
                /\ UNCHANGED <<G, shown>>
           ELSE /\ G' = r.G
                /\ raised' = raised
                /\ IF number_of_nodes(r.G) = 0
                   THEN /\ shown' = Append(shown, "warning: no network")
                        /\ pc' = "stopped"
                   ELSE /\ shown' = shown
                        /\ pc' = "rank"
    /\ UNCHANGED <<uniprot_id, string_data, top_n, hub_genes, hubs_arg, fig, results>>

(* hub_genes = find_hub_genes(G) *)
Rank ==
    /\ pc = "rank"
    /\ calls' = Append(calls, "find_hub_genes")
    /\ top_n' = DefaultTopN
    /\ hub_genes' = find_hub_genes(G, DefaultTopN)
    /\ shown' = Append(shown, IF find_hub_genes(G, DefaultTopN) # <<>>
                              THEN "success: top hub genes"
                              ELSE "info: no hub genes")
    /\ pc' = "render"
    /\ UNCHANGED <<uniprot_id, string_data, G, hubs_arg, fig, results, raised>>

(* fig = create_graph_figure(G, hub_genes); the chart and the PNG download *)
(* that follow only read fig                                             *)
Render ==
    /\ pc = "render"
    /\ calls' = Append(calls, "create_graph_figure")
    /\ hubs_arg' = hub_genes
    /\ fig' = create_graph_figure(G, hub_genes)
    /\ pc' = "results"
    /\ UNCHANGED <<uniprot_id, string_data, G, top_n, hub_genes, results, raised, shown>>

(* the Network Analysis Results expander *)
Results ==
    /\ pc = "results"
    /\ results' = analysis_results(G)
    /\ shown' = Append(shown, IF number_of_nodes(G) > 0
                              THEN "info: main hub gene"
                              ELSE "info: no nodes")
    /\ pc' = "done"
    /\ UNCHANGED <<uniprot_id, string_data, G, top_n, hub_genes, hubs_arg, fig, raised, calls>>

(* the script reruns for the next request: every entity is built afresh *)
Rerun ==
    /\ pc \in {"stopped", "done"}
    /\ pc' = "idle"
    /\ uniprot_id' = <<>>
    /\ string_data' = NoneValue
    /\ G' = EmptyGraph
    /\ top_n' = DefaultTopN
    /\ hub_genes' = <<>>
    /\ hubs_arg' = <<>>
    /\ fig' = <<>>
    /\ results' = NoResults
    /\ raised' = "none"
    /\ shown' = <<>>
    /\ calls' = <<>>

Next ==
    \/ Analyze
    \/ FetchRaises
    \/ FetchReturns
    \/ Build
    \/ Rank
    \/ Render
    \/ Results
    \/ Rerun

Spec == Init /\ [][Next]_vars

----------------------------------------------------------------------------
(* build_network applied to a drawn sequence of records *)

InitIngest ==
    /\ pc = "input"
    /\ uniprot_id = <<>>
    /\ G = EmptyGraph
    /\ top_n = DefaultTopN
    /\ hub_genes = <<>>
    /\ hubs_arg = <<>>
    /\ fig = <<>>
    /\ results = NoResults
    /\ raised = "none"
    /\ shown = <<>>
    /\ calls = <<>>
    /\ \E data \in SeqsUpTo(IngestRecords, MaxIngest) : string_data = ListValue(data)

Ingest ==
    /\ pc = "input"
    /\ calls' = Append(calls, "build_network")
    /\ LET r == build_network(string_data.items)
       IN  /\ raised' = r.raised
           /\ G' = IF r.raised = "none" THEN r.G ELSE G
           /\ pc' = IF r.raised = "none" THEN "built" ELSE "raised"
    /\ UNCHANGED <<uniprot_id, string_data, top_n, hub_genes, hubs_arg, fig, results, shown>>

NextIngest == Ingest

IngestSpec == InitIngest /\ [][NextIngest]_vars

----------------------------------------------------------------------------
(* find_hub_genes and create_graph_figure applied to built graphs *)

InitRank ==
    /\ pc = "built"
    /\ uniprot_id = <<>>
    /\ top_n = DefaultTopN
    /\ hub_genes = <<>>
    /\ hubs_arg = <<>>
    /\ fig = <<>>
    /\ results = NoResults
    /\ raised = "none"
    /\ shown = <<>>
    /\ calls = <<"build_network">>
    /\ \E data \in SeqsUpTo(RankRecords, MaxRank) :
          /\ string_data = ListValue(data)
          /\ G = build_network(data).G

RankAny ==
    /\ pc = "built"
    /\ calls' = Append(calls, "find_hub_genes")
    /\ \E n \in TopNs :
          /\ top_n' = n
          /\ hub_genes' = find_hub_genes(G, n)
    /\ pc' = "ranked"
    /\ UNCHANGED <<uniprot_id, string_data, G, hubs_arg, fig, results, raised, shown>>

AssembleAny ==
    /\ pc \in {"built", "ranked"}
    /\ calls' = Append(calls, "create_graph_figure")
    /\ \E hubs \in (IF pc = "ranked" THEN {hub_genes} ELSE HubLists) :
          /\ hubs_arg' = hubs
          /\ fig' = create_graph_figure(G, hubs)
    /\ pc' = "assembled"
    /\ UNCHANGED <<uniprot_id, string_data, G, top_n, hub_genes, results, raised, shown>>

NextRank == RankAny \/ AssembleAny

RankSpec == InitRank /\ [][NextRank]_vars

----------------------------------------------------------------------------
(* Vocabulary of the properties *)

Data == string_data.items

Range(s) == {s[i] : i \in 1..Len(s)}

IsPrefix(s, t) == Len(s) <= Len(t) /\ \A i \in 1..Len(s) : s[i] = t[i]

EdgeIdx(g, a, b) == {k \in 1..Len(g.edges) : g.edges[k].src = a /\ g.edges[k].dst = b}

RecordIdx(data, a, b) ==
    {i \in 1..Len(data) : data[i].preferredName_A = a /\ data[i].preferredName_B = b}

Last(S) == CHOOSE i \in S : \A j \in S : j <= i

Endpoints(g) == UNION {{g.edges[k].src, g.edges[k].dst} : k \in 1..Len(g.edges)}

(* labels in the order in which the records mention them first *)
RECURSIVE Mentions(_, _)
Mentions(data, i) ==
    IF i > Len(data) THEN <<>>
    ELSE <<data[i].preferredName_A, data[i].preferredName_B>> \o Mentions(data, i + 1)

FirstMention(data, x) ==
    LET m == Mentions(data, 1) IN CHOOSE i \in 1..Len(m) : m[i] = x /\ \A j \in 1..(i - 1) : m[j] # x

(* x ranks before y: higher degree, or equal degree and mentioned earlier *)
RanksBefore(g, data, x, y) ==
    \/ Degree(g, x) > Degree(g, y)
    \/ Degree(g, x) = Degree(g, y) /\ FirstMention(data, x) < FirstMention(data, y)

Pipeline ==
    <<"get_string_interactions", "build_network", "find_hub_genes", "create_graph_figure">>

ListingNodes == [i \in 1..Len(results.listing) |-> results.listing[i].node]

----------------------------------------------------------------------------
(* C1: the graph returned by build_network has no edge of weight <= 0 (a  *)
(* single record (A,B,0) gives a graph without edges and without nodes).   *)
(* The code adds every record's edge whatever its score.                   *)
C1_NoNonPositiveWeight ==
    pc = "built" => \A k \in 1..Len(G.edges) : G.edges[k].weight > 0

(* C2: a record lacking an endpoint label or the score is skipped:         *)
(* build_network returns, and returns the graph of the well-formed records.*)
(* The code raises KeyError at the first such record.                      *)
C2_MalformedSkipped ==
    pc \in {"built", "raised"} =>
        /\ raised = "none"
        /\ G = build_network(SelectSeq(Data, WellFormed)).G

(* C3: find_hub_genes called with top_n <= 0 ends in an error and returns  *)
(* no hub list. The code slices with top_n and returns a list.             *)
C3_InvalidTopNFails ==
    (pc = "ranked" /\ top_n <= 0) => raised # "none"

(* C4: records naming the same pair (same preferredName_A, same            *)
(* preferredName_B) leave one edge for the pair, weighted by the last such *)
(* record in input order.                                                  *)
C4_LastRecordWins ==
    pc = "built" =>
        \A a \in Labels, b \in Labels :
            RecordIdx(Data, a, b) # {} =>
                /\ Cardinality(EdgeIdx(G, a, b)) = 1
                /\ \A k \in EdgeIdx(G, a, b) :
                       G.edges[k].weight = Data[Last(RecordIdx(Data, a, b))].score

C4_Witness ==
    /\ pc = "built"
    /\ Data = <<Rec("A", "B", 3), Rec("A", "B", 8)>>
    /\ G.edges = <<[src |-> "A", dst |-> "B", weight |-> 8]>>

(* C5: for top_n >= 1 the hub list is in descending degree order, nodes of *)
(* equal degree in the order in which the records first mention them, and  *)
(* every node left out ranks after every node of the list.                 *)
C5_StableDegreeOrder ==
    (pc = "ranked" /\ top_n >= 1) =>
        /\ \A i \in 1..Len(hub_genes), j \in 1..Len(hub_genes) :
               i < j => RanksBefore(G, Data, hub_genes[i], hub_genes[j])
        /\ \A n \in Range(G.nodes) \ Range(hub_genes) :
               \A i \in 1..Len(hub_genes) : RanksBefore(G, Data, hub_genes[i], n)

C5_Witness ==
    /\ pc = "ranked"
    /\ top_n = 2
    /\ Data = <<Rec("A", "B", 9), Rec("B", "C", 9), Rec("A", "C", 9)>>
    /\ \A n \in {"A", "B", "C"} : Degree(G, n) = 2
    /\ hub_genes = <<"A", "B">>

(* C6: for top_n >= 1 the hub list has at most top_n elements, all of them *)
(* nodes of the graph, and holds every node when the graph has fewer than  *)
(* top_n nodes (an empty graph gives an empty list).                       *)
C6_HubListBounded ==
    (pc = "ranked" /\ top_n >= 1) =>
        /\ Len(hub_genes) <= top_n
        /\ Range(hub_genes) \subseteq Range(G.nodes)
        /\ number_of_nodes(G) < top_n => Range(hub_genes) = Range(G.nodes)
        /\ number_of_nodes(G) = 0 => hub_genes = <<>>

C6_Witness ==
    /\ pc = "ranked"
    /\ top_n = 2
    /\ number_of_nodes(G) = 3
    /\ Len(hub_genes) = 2

(* C7: after build_network every node is an endpoint of an edge of the     *)
(* graph: the node set is exactly the set of edge endpoints.               *)
C7_NoOrphanNodes ==
    pc = "built" => Range(G.nodes) = Endpoints(G)

C7_Witness ==
    /\ pc = "built"
    /\ Data = <<Rec("A", "B", 0), Rec("C", "C", 3)>>
    /\ G.nodes = <<"A", "B", "C">>
    /\ Endpoints(G) = {"A", "B", "C"}

(* C8: create_graph_figure emits exactly one entry per node of the graph,  *)
(* in node order, and the entry is red iff the node's label is in the hub  *)
(* list passed in.                                                         *)
C8_HubMarking ==
    pc = "assembled" =>
        /\ Len(fig) = number_of_nodes(G)
        /\ \A n \in Range(G.nodes) :
               Cardinality({i \in 1..Len(fig) : fig[i].text = n}) = 1
        /\ \A i \in 1..Len(fig) :
               /\ fig[i].text = G.nodes[i]
               /\ fig[i].color \in {"red", "royalblue"}
               /\ fig[i].color = "red" <=> fig[i].text \in Range(hubs_arg)

C8_Witness ==
    /\ pc = "assembled"
    /\ hubs_arg = <<"Z", "B">>
    /\ G.nodes = <<"A", "B", "C">>
    /\ [i \in 1..Len(fig) |-> fig[i].color] = <<"royalblue", "red", "royalblue">>

(* C9: within one request the stages run in the order fetch,               *)
(* build_network, find_hub_genes, create_graph_figure; the fetch is made   *)
(* only for a non-empty stripped input; after a fetch that gave None or no *)
(* record nothing else runs and the failure is shown; build_network runs   *)
(* only on a non-empty reply, ranking and rendering only on a graph with   *)
(* at least one node.                                                      *)
C9_StagesAfterData ==
    /\ IsPrefix(calls, Pipeline)
    /\ calls # <<>> => uniprot_id # <<>>
    /\ (pc = "stopped" /\ uniprot_id = <<>>) => calls = <<>>
    /\ (calls # <<>> /\ Falsy(string_data)) =>
           /\ calls = <<"get_string_interactions">>
           /\ pc = "stopped"
           /\ raised = "none" => Contains(shown, "error: no interaction data")
    /\ Contains(calls, "build_network") => ~Falsy(string_data)
    /\ Contains(calls, "find_hub_genes") => (number_of_nodes(G) > 0 /\ raised = "none")
    /\ Contains(calls, "create_graph_figure") => number_of_nodes(G) > 0

C9_Witness ==
    /\ pc = "stopped"
    /\ string_data = NoneValue
    /\ raised = "none"
    /\ calls = <<"get_string_interactions">>
    /\ shown = <<"error: no interaction data">>

(* C10: for a graph with nodes, the Main Hub Gene of the results block is  *)
(* the first element of the hub list, and the hub list (top 5) is a prefix *)
(* of the Node Degrees listing (top 10).                                   *)
C10_MainHubIsFirstHub ==
    pc = "done" =>
        /\ number_of_nodes(G) > 0 =>
               (hub_genes # <<>> /\ results.main_hub = hub_genes[1])
        /\ IsPrefix(hub_genes, ListingNodes)

C10_Witness ==
    /\ pc = "done"
    /\ number_of_nodes(G) > DefaultTopN
    /\ Len(hub_genes) = DefaultTopN
    /\ Len(ListingNodes) > DefaultTopN
    /\ \E n \in Range(G.nodes) :
           n # results.main_hub /\ Degree(G, n) = Degree(G, results.main_hub)

====
